---------------------------- MODULE Spec2Model ----------------------------
(***************************************************************************)
(* Generation lifecycle of MelodyMaker.ai: the submission endpoint with    *)
(* its detached provider continuation (app/api/generate-music/route.ts),   *)
(* the Replicate webhook endpoint (app/api/webhooks/replicate/route.ts)    *)
(* and the rows they share: the tracks table, the music storage bucket and *)
(* the track_updates table.                                                *)
(***************************************************************************)
EXTENDS Integers, Sequences, FiniteSets, Bags, TLC

(* ----------------------------- bounds --------------------------------- *)
MaxTracks == 1
MaxCallbacks == 2
MaxClock == 1
NumHandlers == 2

TrackIds == 1..MaxTracks
Handlers == 1..NumHandlers

(* --------------------------- column values ----------------------------- *)
NULL == "NULL"
NullFile == <<>>
NoId == 0

\* `pred_${Math.random()...}`: one fresh handle per provider call; one more
\* handle exists that no provider call ever returned.
PredIds == 1..(MaxTracks + 1)
PredictionIdFor(t) == t

\* duration passed to generateMusicWithReplicate and stored in generation_params
GenerationDuration == 30
\* DEFAULT of the tracks.duration column
ColumnDefaultDuration == 30
\* fallback of `track.generation_params?.duration || 10`
WebhookDefaultDuration == 10

(* ------------------------- webhook payloads ---------------------------- *)
Statuses == {"succeeded", "failed", "canceled", "starting", "processing", "queued"}
ProviderError == "NSFW content detected"

\* The raw request body: text that is not JSON, or a JSON object with the
\* fields the handler destructures.  id = NoId, output = "none" and
\* error = "" stand for an absent (falsy) field.  output and error vary
\* only with the statuses whose branch reads them.
MalformedBody == [json |-> FALSE, id |-> NoId, status |-> "queued", output |-> "none", error |-> ""]
Payload(i, s, o, e) == [json |-> TRUE, id |-> i, status |-> s, output |-> o, error |-> e]
Bodies ==
    {MalformedBody}
    \cup {Payload(i, "succeeded", o, "") : i \in PredIds \cup {NoId}, o \in {"none", "string", "list", "emptylist"}}
    \cup {Payload(i, s, "none", e) : i \in PredIds, s \in {"failed", "canceled"}, e \in {"", ProviderError}}
    \cup {Payload(i, s, "none", "") : i \in PredIds, s \in {"starting", "processing", "queued"}}

(* ------------------------ signature verification ----------------------- *)
HexDigits == <<"0", "1", "2", "3", "4", "5", "6", "7", "8", "9", "a", "b", "c", "d", "e", "f">>
UpperDigits == <<"0", "1", "2", "3", "4", "5", "6", "7", "8", "9", "A", "B", "C", "D", "E", "F">>
Sha256Prefix == <<"s", "h", "a", "2", "5", "6", "=">>

NoSecret == 0
WebhookSecret == 91

StatusCode(s) ==
    CASE s = "succeeded" -> 0 [] s = "failed" -> 1 [] s = "canceled" -> 2
      [] s = "starting" -> 3 [] s = "processing" -> 4 [] OTHER -> 5
OutputCode(o) ==
    CASE o = "none" -> 0 [] o = "string" -> 1 [] o = "list" -> 2 [] OTHER -> 3
BodyCode(b) ==
    IF b.json
    THEN 1 + b.id + 8 * StatusCode(b.status) + 48 * OutputCode(b.output)
           + (IF b.error = "" THEN 0 ELSE 192)
    ELSE 0

\* createHmac("sha256", secret).update(body).digest(): a keyed digest of the
\* raw body, here one byte wide and injective on Bodies for a fixed secret.
Hmac(body, secret) == <<(BodyCode(body) * 167 + secret) % 256>>

RECURSIVE ToHex(_)
ToHex(bytes) ==
    IF bytes = <<>> THEN <<>>
    ELSE <<HexDigits[(Head(bytes) \div 16) + 1], HexDigits[(Head(bytes) % 16) + 1]>> \o ToHex(Tail(bytes))

IsHexChar(c) == \E i \in 1..16 : c = HexDigits[i] \/ c = UpperDigits[i]
HexVal(c) == (CHOOSE i \in 1..16 : c = HexDigits[i] \/ c = UpperDigits[i]) - 1

\* Buffer.from(text, "hex"): decodes pairs of hex digits of either case and
\* stops at the first pair that is not two hex digits; an odd last digit is
\* dropped.
RECURSIVE BufferFromHex(_)
BufferFromHex(text) ==
    IF Len(text) < 2 \/ ~IsHexChar(text[1]) \/ ~IsHexChar(text[2]) THEN <<>>
    ELSE <<16 * HexVal(text[1]) + HexVal(text[2])>> \o BufferFromHex(SubSeq(text, 3, Len(text)))

IsPrefixAt(text, pat, i) ==
    /\ i + Len(pat) - 1 <= Len(text)
    /\ SubSeq(text, i, i + Len(pat) - 1) = pat

\* String.prototype.replace(pattern, ""): removes the first occurrence of
\* the pattern, wherever it stands.
StringReplaceFirst(text, pat) ==
    IF \E i \in 1..Len(text) : IsPrefixAt(text, pat, i)
    THEN LET i == CHOOSE k \in 1..Len(text) :
                     IsPrefixAt(text, pat, k) /\ \A j \in 1..(k - 1) : ~IsPrefixAt(text, pat, j)
         IN SubSeq(text, 1, i - 1) \o SubSeq(text, i + Len(pat), Len(text))
    ELSE text

\* timingSafeEqual(a, b): throws on buffers of different length (the caller's
\* catch answers false), otherwise compares the bytes.
TimingSafeEqual(a, b) == Len(a) = Len(b) /\ a = b

verifyWebhookSignature(body, signature, secret) ==
    IF signature = <<>> \/ secret = NoSecret THEN FALSE
    ELSE LET expectedSignature == ToHex(Hmac(body, secret))
             providedSignature == StringReplaceFirst(signature, Sha256Prefix)
         IN TimingSafeEqual(BufferFromHex(expectedSignature), BufferFromHex(providedSignature))

\* The replicate-signature header: absent (headers.get answers null) or text.
NoSig == [present |-> FALSE, text |-> <<>>]
Sig(text) == [present |-> TRUE, text |-> text]

(* ------------------------------- state --------------------------------- *)
VARIABLES
    env,            \* process.env: the webhook secret and the Supabase credentials
    clock,          \* Date.now() / NOW()
    tracks,         \* the tracks table: id -> row
    storage,        \* keys of the objects in the music bucket
    track_updates,  \* the track_updates table, in insertion order
    created,        \* number of track ids handed out by createTrackRecord
    task,           \* per track id: position of the detached provider continuation
    lastSubmit,     \* the last response of the submission endpoint
    hs,             \* per webhook invocation slot: position and locals of the handler
    overlap,        \* per slot: the slots whose invocation ran during this one
    lastApplied,    \* per track id: the body of the callback that wrote the row last
    delivered,      \* number of webhook requests received
    probe,          \* a request and what the handler's entry checks made of it
    reply,          \* the last response of a read endpoint
    built,          \* a submission body and the row the endpoint builds from it
    title,          \* generateRandomTitle: its locals while it runs
    rt,             \* useSupabaseRealtime: the hook, its channels and the events published
    poll,           \* pollTrackStatus: its position and the reads it made
    search,         \* useSpotifySearch: query, timer, requests in flight and results
    sel,            \* the viewer's selected songs and the adds in progress
    gen             \* the broadcast-driven viewer's generated-tracks list

clientVars == <<built, title, rt, poll, search, sel, gen>>
serverVars == <<env, clock, tracks, storage, track_updates, created, task, lastSubmit, hs, overlap, lastApplied, delivered, probe, reply>>
vars == <<serverVars, clientVars>>

\* A slot between invocations.  After a response the slot keeps the response
\* status, the track the invocation found, whether the request came without a
\* signature header although a secret is configured, what the invocation
\* wrote and whether the row was generating when the invocation wrote it
\* (or, writing nothing, found it).
IdleHandler ==
    [pc |-> "idle", body |-> MalformedBody, trackId |-> NoId,
     paramsDuration |-> 0, fileName |-> NullFile, err |-> NULL, resp |-> 0,
     unsigned |-> FALSE, replay |-> FALSE, wrote |-> FALSE, wroteTerminal |-> FALSE,
     onGenerating |-> FALSE]

NoProbe == [asked |-> FALSE, sig |-> NoSig, body |-> MalformedBody, outcome |-> "none"]

\* A response of a read endpoint: its number, the endpoint, the status code,
\* the rows of its body, and of the request the limit text, the id and
\* whether the query failed in the database.
Reply(n, endpoint, status, rows, limit, id, dbError) ==
    [n |-> n, endpoint |-> endpoint, status |-> status, rows |-> rows,
     limit |-> limit, id |-> id, dbError |-> dbError]
NoReply == Reply(0, "none", 0, <<>>, <<>>, NoId, FALSE)

NoBuild == [asked |-> FALSE]
NoTitle == [pc |-> "idle"]
NoChannel == 0
NoDeps == [channel |-> NoChannel, options |-> 2]
NoRealtime ==
    [pc |-> "idle", client |-> FALSE, filtered |-> FALSE, options |-> 0,
     channel |-> NoChannel, setupChannel |-> NoDeps,
     effect |-> [deps |-> NoDeps, newChannel |-> NoChannel],
     joining |-> {}, joined |-> {}, everActive |-> FALSE, disturbed |-> FALSE,
     events |-> <<>>]
NoPoll ==
    [pc |-> "idle", attempts |-> 0, reads |-> 0, shown |-> "generating",
     sawTerminal |-> FALSE, readAfterTerminal |-> FALSE, threw |-> FALSE]
NoSearch ==
    [query |-> <<>>, timer |-> TRUE, issued |-> 0, inflight |-> {},
     results |-> [tracks |-> FALSE], cleared |-> FALSE,
     latest |-> [n |-> 0, q |-> <<>>, expect |-> [tracks |-> FALSE]]]
NumSongIds == 6
SongIds == 1..NumSongIds
NoSongId == 0
NoSelection ==
    [selectedSongs |-> <<>>, loadingDetails |-> NoSongId, pending |-> [id \in SongIds |-> 0]]
NoGenerated ==
    [pc |-> "idle", isGenerating |-> FALSE, generatedTracks |-> <<>>, selectedTrack |-> 0,
     jobs |-> 0, received |-> 0, completed |-> {}]

\* The client side and the pure functions before anything ran.
ClientInit ==
    /\ built = NoBuild
    /\ title = NoTitle
    /\ rt = NoRealtime
    /\ poll = NoPoll
    /\ search = NoSearch
    /\ sel = NoSelection
    /\ gen = NoGenerated

Init ==
    /\ env \in [secret : {NoSecret, WebhookSecret}, supabase : BOOLEAN]
    /\ clock = 0
    /\ tracks = <<>>
    /\ storage = {}
    /\ track_updates = <<>>
    /\ created = 0
    /\ task = [t \in TrackIds |-> "none"]
    /\ lastSubmit = [status |-> 0, id |-> NoId, empty |-> FALSE]
    /\ hs = [h \in Handlers |-> IdleHandler]
    /\ overlap = [h \in Handlers |-> {}]
    /\ lastApplied = [t \in TrackIds |-> MalformedBody]
    /\ delivered = 0
    /\ probe = NoProbe
    /\ reply = NoReply
    /\ ClientInit

Tick ==
    /\ clock < MaxClock
    /\ clock' = clock + 1
    /\ UNCHANGED <<env, tracks, storage, track_updates, created, task, lastSubmit, hs, overlap, lastApplied, delivered, probe, reply, clientVars>>

(* ------------------------- the tracks table ---------------------------- *)
\* insert([data]): the columns the endpoint supplies plus the column defaults
NewTrackRow(id, now) ==
    [id |-> id, status |-> "generating", file_url |-> NullFile, file_path |-> NullFile,
     duration |-> ColumnDefaultDuration, error_message |-> NULL,
     replicate_prediction_id |-> NoId,
     generation_params |-> [duration |-> GenerationDuration],
     created_at |-> now, updated_at |-> now]

\* update(updates).eq("id", id): the named columns are overwritten, the
\* others kept; the update_tracks_updated_at trigger sets updated_at.
ApplyUpdate(row, updates, now) ==
    [c \in DOMAIN row |->
        IF c = "updated_at" THEN now
        ELSE IF c \in DOMAIN updates THEN updates[c] ELSE row[c]]

UpdateTracks(id, updates) ==
    IF id \in DOMAIN tracks
    THEN [tracks EXCEPT ![id] = ApplyUpdate(tracks[id], updates, clock)]
    ELSE tracks

\* select("*").eq("replicate_prediction_id", predictionId).limit(1)
TracksByPrediction(pid) == {t \in DOMAIN tracks : tracks[t].replicate_prediction_id = pid}

FileName(id, now) == <<id, now>>
PublicUrl(fileName) == <<"public">> \o fileName
PlaceholderPath(fileName) == <<"music">> \o fileName
PlaceholderUrl(fileName) == <<"fake-supabase-storage">> \o fileName

(* ----------------- submission endpoint and its continuation ------------ *)
\* The fields of the request body: each absent (undefined) or present, the
\* description with its text, selectedSongs with its length.
NoDescription == [present |-> FALSE, text |-> <<>>]
Description(text) == [present |-> TRUE, text |-> text]
NoSongs == [present |-> FALSE, length |-> 0]
Songs(n) == [present |-> TRUE, length |-> n]

MaxDescLen == 2
MaxSongs == 1
Whitespace == {" ", "\t"}
DescChars == Whitespace \cup {"a"}
Texts == UNION {[1..n -> DescChars] : n \in 0..MaxDescLen}
Descriptions == {NoDescription} \cup {Description(text) : text \in Texts}
SongLists == {NoSongs} \cup {Songs(n) : n \in 0..MaxSongs}

\* String.prototype.trim(): the text without its leading and trailing
\* whitespace.
RECURSIVE TrimStart(_)
TrimStart(text) ==
    IF text # <<>> /\ Head(text) \in Whitespace THEN TrimStart(Tail(text)) ELSE text
RECURSIVE TrimEnd(_)
TrimEnd(text) ==
    IF text # <<>> /\ text[Len(text)] \in Whitespace
    THEN TrimEnd(SubSeq(text, 1, Len(text) - 1)) ELSE text
Trim(text) == TrimEnd(TrimStart(text))

\* Validate that compares the description as sent, without trim().
ValidateUntrimmed(description, selectedSongs) ==
    IF ~description.present THEN "throw"
    ELSE IF description.text = <<>> /\ ~selectedSongs.present THEN "throw"
    ELSE IF description.text = <<>> /\ selectedSongs.length = 0 THEN "reject"
    ELSE IF ~selectedSongs.present THEN "throw"
    ELSE "accept"

\* `!description.trim() && selectedSongs.length === 0` and the first reads
\* of both fields: reading a property of an absent field throws (the outer
\* catch answers 500), a blank description without songs is rejected.
Validate(description, selectedSongs) ==
    IF ~description.present THEN "throw"
    ELSE IF Trim(description.text) = <<>> /\ ~selectedSongs.present THEN "throw"
    ELSE IF Trim(description.text) = <<>> /\ selectedSongs.length = 0 THEN "reject"
    ELSE IF ~selectedSongs.present THEN "throw"
    ELSE "accept"

\* The request carries a description of whitespace only (or of nothing) and
\* an empty list of songs.
IsEmptySubmission(description, selectedSongs) ==
    /\ description.present /\ \A i \in 1..Len(description.text) : description.text[i] \in Whitespace
    /\ selectedSongs.present /\ selectedSongs.length = 0

SubmitResponse(status, id, description, selectedSongs) ==
    [status |-> status, id |-> id, empty |-> IsEmptySubmission(description, selectedSongs)]

\* POST /api/generate-music up to its response.
Submit(description, selectedSongs) ==
    /\ created < MaxTracks
    /\ UNCHANGED <<env, clock, storage, track_updates, hs, overlap, lastApplied, delivered, probe, reply, clientVars>>
    /\ LET outcome == Validate(description, selectedSongs)
           id == created + 1
       IN IF outcome = "reject"
          THEN /\ lastSubmit' = SubmitResponse(400, NoId, description, selectedSongs)
               /\ UNCHANGED <<tracks, created, task>>
          ELSE IF outcome = "throw"
          THEN /\ lastSubmit' = SubmitResponse(500, NoId, description, selectedSongs)
               /\ UNCHANGED <<tracks, created, task>>
          ELSE IF ~env.supabase
          THEN \* createTrackRecord answers a placeholder row that is not stored
               /\ created' = id
               /\ task' = [task EXCEPT ![id] = "pending"]
               /\ lastSubmit' = SubmitResponse(200, id, description, selectedSongs)
               /\ UNCHANGED tracks
          ELSE \E ok \in BOOLEAN :
               IF ok
               THEN /\ tracks' = tracks @@ (id :> NewTrackRow(id, clock))
                    /\ created' = id
                    /\ task' = [task EXCEPT ![id] = "pending"]
                    /\ lastSubmit' = SubmitResponse(200, id, description, selectedSongs)
               ELSE /\ lastSubmit' = SubmitResponse(500, NoId, description, selectedSongs)
                    /\ UNCHANGED <<tracks, created, task>>

\* .then of generateMusicWithReplicate: the provider call always answers
\* status "succeeded"; uploadToSupabaseStorage answers placeholder names
\* without touching the bucket; updateTrackRecord writes the row.
DispatcherThen(t) ==
    /\ task[t] = "pending"
    /\ UNCHANGED <<env, clock, storage, track_updates, created, lastSubmit, hs, overlap, lastApplied, delivered, probe, reply, clientVars>>
    /\ LET fileName == FileName(t, clock) IN
       IF ~env.supabase
       THEN /\ task' = [task EXCEPT ![t] = "done"]
            /\ UNCHANGED tracks
       ELSE \E ok \in BOOLEAN :
            IF ok
            THEN /\ tracks' = UpdateTracks(t,
                        [status |-> "completed",
                         file_url |-> PlaceholderUrl(fileName),
                         file_path |-> PlaceholderPath(fileName),
                         replicate_prediction_id |-> PredictionIdFor(t),
                         duration |-> GenerationDuration])
                 /\ task' = [task EXCEPT ![t] = "done"]
            ELSE /\ task' = [task EXCEPT ![t] = "catch"]
                 /\ UNCHANGED tracks

\* .catch of the continuation: updateTrackRecord(track.id, {status: "failed"})
DispatcherCatch(t) ==
    /\ task[t] = "catch"
    /\ UNCHANGED <<env, clock, storage, track_updates, created, lastSubmit, hs, overlap, lastApplied, delivered, probe, reply, clientVars>>
    /\ \E ok \in BOOLEAN :
         /\ task' = [task EXCEPT ![t] = IF ok THEN "done" ELSE "rejected"]
         /\ tracks' = IF ok THEN UpdateTracks(t, [status |-> "failed"]) ELSE tracks

(* --------------------------- webhook endpoint -------------------------- *)
\* ResponseStatus with the answer of the catch block of the succeeded branch
\* sent as a client error.
ResponseStatusClientError(outcome) ==
    CASE outcome = "invalid_signature" -> 401
      [] outcome = "invalid_json" -> 400
      [] outcome = "missing_prediction_id" -> 400
      [] outcome = "database_error" -> 500
      [] outcome = "track_not_found" -> 404
      [] outcome = "track_updated" -> 200
      [] outcome = "process_failed" -> 400
      [] outcome = "marked_failed" -> 200
      [] outcome = "status_updated" -> 200
      [] outcome = "status_noted" -> 200
      [] OTHER -> 500

\* The status code of each NextResponse.json the handler can return.
ResponseStatus(outcome) ==
    CASE outcome = "invalid_signature" -> 401
      [] outcome = "invalid_json" -> 400
      [] outcome = "missing_prediction_id" -> 400
      [] outcome = "database_error" -> 500
      [] outcome = "track_not_found" -> 404
      [] outcome = "track_updated" -> 200
      [] outcome = "process_failed" -> 500
      [] outcome = "marked_failed" -> 200
      [] outcome = "status_updated" -> 200
      [] outcome = "status_noted" -> 200
      [] OTHER -> 500

Respond(rec, outcome) ==
    [IdleHandler EXCEPT !.resp = ResponseStatus(outcome), !.trackId = rec.trackId,
                        !.unsigned = rec.unsigned,
                        !.wrote = rec.wrote, !.wroteTerminal = rec.wroteTerminal,
                        !.onGenerating = rec.onGenerating]

\* JavaScript truthiness of the header value: null and "" are falsy
Truthy(sig) == sig.present /\ sig.text # <<>>

\* `if (webhookSecret && signature)` and the call inside it
SignatureRejected(secret, sig, body) ==
    /\ secret # NoSecret
    /\ Truthy(sig)
    /\ ~verifyWebhookSignature(body, sig.text, secret)

\* The handler from request.text() to the lookup query (lines 106-158): the
\* response it returns, or "lookup" when it goes on to query the table.
\* With no credentials supabaseAdmin is null and the query expression throws.
Admit(secret, supabase, sig, body) ==
    IF SignatureRejected(secret, sig, body) THEN "invalid_signature"
    ELSE IF ~body.json THEN "invalid_json"
    ELSE IF body.id = NoId THEN "missing_prediction_id"
    ELSE IF ~supabase THEN "internal_error"
    ELSE "lookup"

IsTerminalBody(b) ==
    b.json /\ ((b.status = "succeeded" /\ b.output # "none") \/ b.status \in {"failed", "canceled"})

\* GenerationMessage that names failure whatever the status.
GenerationMessageFailedOnly(status) == "Generation failed"

\* `Generation ${status}`
GenerationMessage(status) == IF status = "failed" THEN "Generation failed" ELSE "Generation canceled"

InFlight(h) == hs[h].pc # "idle"

\* A request arrives and runs up to the await of the lookup query.  Requests
\* take the lowest free slot.
WebhookReceive(h, sig, body) ==
    /\ ~InFlight(h)
    /\ \A j \in Handlers : j < h => InFlight(j)
    /\ delivered < MaxCallbacks
    /\ delivered' = delivered + 1
    /\ overlap' = [k \in Handlers |->
            IF k = h THEN {j \in Handlers \ {h} : InFlight(j)}
            ELSE IF InFlight(k) THEN overlap[k] \cup {h} ELSE overlap[k] \ {h}]
    /\ LET outcome == Admit(env.secret, env.supabase, sig, body)
           req == [IdleHandler EXCEPT !.unsigned = (env.secret # NoSecret /\ ~sig.present)]
       IN hs' = [hs EXCEPT ![h] =
            IF outcome = "lookup" THEN [req EXCEPT !.pc = "lookup", !.body = body]
            ELSE Respond(req, outcome)]
    /\ UNCHANGED <<env, clock, tracks, storage, track_updates, created, task, lastSubmit, lastApplied, probe, reply, clientVars>>

\* The branch the handler takes for a found track (lines 175-257), up to its
\* next await.
Dispatch(rec, t) ==
    LET b == rec.body
        r == [rec EXCEPT !.trackId = t,
                         !.paramsDuration = tracks[t].generation_params.duration,
                         !.replay = IsTerminalBody(b) /\ lastApplied[t] = b]
    IN IF b.status = "succeeded" /\ b.output # "none"
       THEN IF b.output \in {"string", "list"}
            THEN [r EXCEPT !.pc = "fetch", !.fileName = FileName(t, clock)]
            ELSE [r EXCEPT !.pc = "update_failed", !.err = "Unexpected output format from Replicate"]
       ELSE IF b.status \in {"failed", "canceled"}
       THEN [r EXCEPT !.pc = "mark_failed",
                      !.err = IF b.error # "" THEN b.error ELSE GenerationMessage(b.status)]
       ELSE IF b.status \in {"starting", "processing"}
       THEN [r EXCEPT !.pc = "touch"]
       ELSE Respond([r EXCEPT !.onGenerating = (tracks[t].status = "generating")], "status_noted")

\* The lookup query resolves.
WebhookLookup(h) ==
    /\ hs[h].pc = "lookup"
    /\ \E ok \in BOOLEAN :
         hs' = [hs EXCEPT ![h] =
            IF ~ok THEN Respond(hs[h], "database_error")
            ELSE LET found == TracksByPrediction(hs[h].body.id) IN
                 IF found = {} THEN Respond(hs[h], "track_not_found")
                 ELSE Dispatch(hs[h], CHOOSE t \in found : TRUE)]
    /\ UNCHANGED <<env, clock, tracks, storage, track_updates, created, task, lastSubmit, overlap, lastApplied, delivered, probe, reply, clientVars>>

\* fetch(audioUrl, {signal: AbortSignal.timeout(30000)}) and arrayBuffer()
WebhookFetch(h) ==
    /\ hs[h].pc = "fetch"
    /\ \E outcome \in {"ok", "http_error", "timeout"} :
         hs' = [hs EXCEPT ![h] =
            IF outcome = "ok" THEN [@ EXCEPT !.pc = "upload"]
            ELSE [@ EXCEPT !.pc = "update_failed",
                           !.err = IF outcome = "http_error" THEN "Failed to fetch audio"
                                   ELSE "The operation was aborted due to timeout"]]
    /\ UNCHANGED <<env, clock, tracks, storage, track_updates, created, task, lastSubmit, overlap, lastApplied, delivered, probe, reply, clientVars>>

\* storage.from("music").upload(fileName, ..., {upsert: false})
WebhookUpload(h) ==
    /\ hs[h].pc = "upload"
    /\ \E outcome \in {"ok", "error"} :
         IF outcome = "ok" /\ hs[h].fileName \notin storage
         THEN /\ storage' = storage \cup {hs[h].fileName}
              /\ hs' = [hs EXCEPT ![h] = [@ EXCEPT !.pc = "update_completed", !.wrote = TRUE]]
         ELSE /\ hs' = [hs EXCEPT ![h] = [@ EXCEPT !.pc = "update_failed", !.err = "Supabase storage error"]]
              /\ UNCHANGED storage
    /\ UNCHANGED <<env, clock, tracks, track_updates, created, task, lastSubmit, overlap, lastApplied, delivered, probe, reply, clientVars>>

\* updateTrackRecord(track.id, updates) of one branch: the row is written and
\* the handler answers `done`, or the update throws and the handler goes on
\* as `thrown` says.
WebhookWrite(h, updates, terminal, done, thrown) ==
    /\ UNCHANGED <<env, clock, storage, track_updates, created, task, lastSubmit, overlap, delivered, probe, reply, clientVars>>
    /\ \E ok \in BOOLEAN :
         IF ok
         THEN /\ tracks' = UpdateTracks(hs[h].trackId, updates)
              /\ lastApplied' = [lastApplied EXCEPT ![hs[h].trackId] = hs[h].body]
              /\ hs' = [hs EXCEPT ![h] =
                     Respond([@ EXCEPT !.wrote = TRUE, !.wroteTerminal = terminal,
                                       !.onGenerating = (tracks[hs[h].trackId].status = "generating")],
                             done)]
         ELSE /\ hs' = [hs EXCEPT ![h] = thrown]
              /\ UNCHANGED <<tracks, lastApplied>>

\* CompletedUpdates with the duration always the fallback value.
CompletedUpdatesFallbackDuration(rec, now) ==
    [status |-> "completed",
     file_url |-> PublicUrl(rec.fileName),
     file_path |-> rec.fileName,
     duration |-> WebhookDefaultDuration,
     updated_at |-> now]

\* the updates of the succeeded branch
CompletedUpdates(rec, now) ==
    [status |-> "completed",
     file_url |-> PublicUrl(rec.fileName),
     file_path |-> rec.fileName,
     duration |-> IF rec.paramsDuration # 0 THEN rec.paramsDuration ELSE WebhookDefaultDuration,
     updated_at |-> now]

WebhookUpdateCompleted(h) ==
    /\ hs[h].pc = "update_completed"
    /\ WebhookWrite(h, CompletedUpdates(hs[h], clock), TRUE, "track_updated",
          [hs[h] EXCEPT !.pc = "update_failed", !.err = "Database error"])

\* ProcessFailedUpdates without the error message.
ProcessFailedUpdatesNoMessage(err, now) ==
    [status |-> "failed", updated_at |-> now]

\* the updates of the catch block of the succeeded branch
ProcessFailedUpdates(err, now) ==
    [status |-> "failed", error_message |-> err, updated_at |-> now]

\* the catch block of the succeeded branch
WebhookUpdateFailed(h) ==
    /\ hs[h].pc = "update_failed"
    /\ WebhookWrite(h, ProcessFailedUpdates(hs[h].err, clock),
          TRUE, "process_failed", Respond(hs[h], "internal_error"))

\* the updates of the failed / canceled branch
MarkFailedUpdates(err, now) ==
    [status |-> "failed", error_message |-> err, updated_at |-> now]

WebhookMarkFailed(h) ==
    /\ hs[h].pc = "mark_failed"
    /\ WebhookWrite(h, MarkFailedUpdates(hs[h].err, clock),
          TRUE, "marked_failed", Respond(hs[h], "internal_error"))

\* TouchUpdates that stamps created_at as well.
TouchUpdatesStampsCreated(now) ==
    [status |-> "generating", created_at |-> now, updated_at |-> now]

\* the updates of the starting / processing branch
TouchUpdates(now) ==
    [status |-> "generating", updated_at |-> now]

WebhookTouch(h) ==
    /\ hs[h].pc = "touch"
    /\ WebhookWrite(h, TouchUpdates(clock),
          FALSE, "status_updated", Respond(hs[h], "internal_error"))

(* --------------------------- specification ----------------------------- *)
\* The provider signs the raw body with the shared secret; a third party
\* sends no header or a signature with one digit changed.
ProviderSignature(body) == ToHex(Hmac(body, WebhookSecret))
FlipDigit(text) == <<IF text[1] = "0" THEN "1" ELSE "0">> \o Tail(text)
RequestSignatures(body) ==
    {NoSig, Sig(ProviderSignature(body)), Sig(FlipDigit(ProviderSignature(body)))}

Next ==
    \/ Tick
    \/ \E description \in Descriptions, selectedSongs \in SongLists : Submit(description, selectedSongs)
    \/ \E t \in TrackIds : DispatcherThen(t)
    \/ \E t \in TrackIds : DispatcherCatch(t)
    \/ \E h \in Handlers, body \in Bodies : \E sig \in RequestSignatures(body) : WebhookReceive(h, sig, body)
    \/ \E h \in Handlers : WebhookLookup(h)
    \/ \E h \in Handlers : WebhookFetch(h)
    \/ \E h \in Handlers : WebhookUpload(h)
    \/ \E h \in Handlers : WebhookUpdateCompleted(h)
    \/ \E h \in Handlers : WebhookUpdateFailed(h)
    \/ \E h \in Handlers : WebhookMarkFailed(h)
    \/ \E h \in Handlers : WebhookTouch(h)

Spec == Init /\ [][Next]_vars

(* ------------- the entry checks of the webhook handler alone ----------- *)
\* Characters a signature header is built from: hex digits of both cases,
\* a character that is no hex digit, and characters of the scheme prefix.
SigChars == {"0", "1", "9", "a", "f", "A", "F", "z", "s", "="}

Substitutions(text) ==
    {[text EXCEPT ![i] = c] : i \in 1..Len(text), c \in SigChars}
Insertions(text) ==
    {SubSeq(text, 1, i) \o <<c>> \o SubSeq(text, i + 1, Len(text)) : i \in 0..Len(text), c \in SigChars}
Deletions(text) ==
    {SubSeq(text, 1, i - 1) \o SubSeq(text, i + 1, Len(text)) : i \in 1..Len(text)}
UpperCase(text) ==
    [i \in 1..Len(text) |->
        IF \E k \in 1..16 : text[i] = HexDigits[k]
        THEN UpperDigits[CHOOSE k \in 1..16 : text[i] = HexDigits[k]]
        ELSE text[i]]
Variants(text) ==
    {text, UpperCase(text)} \cup Substitutions(text) \cup Insertions(text) \cup Deletions(text)

\* The header values tried for a body: none, and the provider's signature
\* with and without the scheme prefix, each as sent and with one character
\* changed, added or removed.
ProbeSignatures(body) ==
    {NoSig}
    \cup {Sig(v) : v \in Variants(ProviderSignature(body))}
    \cup {Sig(v) : v \in Variants(Sha256Prefix \o ProviderSignature(body))}

Probe(sig, body) ==
    /\ ~probe.asked
    /\ probe' = [asked |-> TRUE, sig |-> sig, body |-> body,
                 outcome |-> Admit(env.secret, env.supabase, sig, body)]
    /\ UNCHANGED <<env, clock, tracks, storage, track_updates, created, task, lastSubmit, hs, overlap, lastApplied, delivered, reply, clientVars>>

NextSig == \E body \in Bodies : \E sig \in ProbeSignatures(body) : Probe(sig, body)

SpecSig == Init /\ [][NextSig]_vars

(* --------------------------- the read endpoints ------------------------ *)
MaxRows == 2
MaxRowTime == 1
MaxReads == 2
RowIds == 1..MaxRows

\* `Number.parseInt(searchParams.get("limit") || "3")`
IsDigit(c) == \E i \in 1..10 : c = HexDigits[i]
RECURSIVE ParseDigits(_, _)
ParseDigits(text, acc) ==
    IF text = <<>> \/ ~IsDigit(Head(text)) THEN acc
    ELSE ParseDigits(Tail(text), 10 * acc + HexVal(Head(text)))
\* Number.parseInt on a text that starts with a digit: the value of its
\* leading digits.
ParseInt(text) == ParseDigits(text, 0)
ParseLimit(text) == IF text = <<>> THEN ParseInt(<<"3">>) ELSE ParseInt(text)

\* The limit parameter: absent (or empty), a numeral, a numeral followed by
\* other characters.
LimitTexts ==
    {<<>>, <<"1", "0">>, <<"1", "x">>} \cup {<<HexDigits[d + 1]>> : d \in 0..(MaxRows + 1)}

\* select("id, title, duration, status, created_at, file_url")
RecentRow(row) ==
    [id |-> row.id, duration |-> row.duration, status |-> row.status,
     created_at |-> row.created_at, file_url |-> row.file_url]

Completed(table) == {t \in DOMAIN table : table[t].status = "completed"}
Orderings(S) ==
    {f \in [1..Cardinality(S) -> S] : \A i, j \in 1..Cardinality(S) : i # j => f[i] # f[j]}
NewestFirst(table, seq) ==
    \A i, j \in 1..Len(seq) : i < j => table[seq[i]].created_at >= table[seq[j]].created_at
\* .limit(n) and Array.prototype.slice(0, n) for n >= 0
Take(seq, n) == SubSeq(seq, 1, IF n < Len(seq) THEN n ELSE Len(seq))

\* .eq("status", "completed").order("created_at", {ascending: false})
\* .limit(limit): the possible results; rows of equal created_at come in
\* either order.
RecentQuery(table, limit) ==
    {Take([i \in 1..Len(seq) |-> RecentRow(table[seq[i]])], limit) :
        seq \in {o \in Orderings(Completed(table)) : NewestFirst(table, o)}}

\* The rows the endpoint makes up when the credentials are missing: ids "1",
\* "2", "3", created one, two and three hours before now.
PlaceholderTracks(now) ==
    <<[id |-> -1, duration |-> 154, status |-> "completed", created_at |-> now - 1, file_url |-> <<"fake-storage", -1>>],
      [id |-> -2, duration |-> 201, status |-> "completed", created_at |-> now - 2, file_url |-> <<"fake-storage", -2>>],
      [id |-> -3, duration |-> 252, status |-> "completed", created_at |-> now - 3, file_url |-> <<"fake-storage", -3>>]>>

\* The three GET handlers of the recent-list endpoint found in the source:
\* the query on supabaseAdmin, the query on getSupabaseAdmin(), and the one
\* that answers placeholder rows when the credentials are missing.
RecentRoutes == {"direct", "admin", "placeholder"}

GetRecent(route, limitText) ==
    /\ reply.n < MaxReads
    /\ UNCHANGED <<env, clock, tracks, storage, track_updates, created, task, lastSubmit, hs, overlap, lastApplied, delivered, probe, clientVars>>
    /\ LET limit == ParseLimit(limitText)
           answer(status, rows, dbError) ==
               Reply(reply.n + 1, "recent", status, rows, limitText, NoId, dbError)
       IN IF ~env.supabase
          THEN reply' = IF route = "placeholder"
                        THEN answer(200, Take(PlaceholderTracks(clock), limit), FALSE)
                        ELSE answer(500, <<>>, FALSE)
          ELSE \E ok \in BOOLEAN :
               IF ok
               THEN \E rows \in RecentQuery(tracks, limit) : reply' = answer(200, rows, FALSE)
               ELSE reply' = answer(500, <<>>, TRUE)

\* The row the status endpoint makes up when the credentials are missing.
PlaceholderTrack(id, status, now) ==
    [id |-> id, status |-> status, file_url |-> <<"fake-storage", id>>,
     duration |-> GenerationDuration, created_at |-> now]

\* GET /api/generate-music?id=...  With credentials the row is read with
\* .single(), which reports "no row" as an error like any other.
GetTrack(trackId) ==
    /\ reply.n < MaxReads
    /\ UNCHANGED <<env, clock, tracks, storage, track_updates, created, task, lastSubmit, hs, overlap, lastApplied, delivered, probe, clientVars>>
    /\ LET answer(status, rows, dbError) ==
               Reply(reply.n + 1, "status", status, rows, <<>>, trackId, dbError)
       IN IF trackId = NoId
          THEN reply' = answer(400, <<>>, FALSE)
          ELSE IF ~env.supabase
          THEN \E status \in {"completed", "generating"} :
                   reply' = answer(200, <<PlaceholderTrack(trackId, status, clock)>>, FALSE)
          ELSE \E ok \in BOOLEAN :
               IF ~ok THEN reply' = answer(500, <<>>, TRUE)
               ELSE IF trackId \notin DOMAIN tracks THEN reply' = answer(500, <<>>, FALSE)
               ELSE reply' = answer(200, <<tracks[trackId]>>, FALSE)

\* The store as some submissions have left it: rows created at various
\* times, each with its provider continuation still to run.  Without
\* credentials nothing is ever stored.
InitReads ==
    /\ env \in [secret : {NoSecret}, supabase : BOOLEAN]
    /\ clock = MaxRowTime
    /\ \E n \in 0..MaxRows : \E times \in [1..n -> 0..MaxRowTime] :
          /\ ~env.supabase => n = 0
          /\ tracks = [t \in 1..n |-> NewTrackRow(t, times[t])]
          /\ created = n
          /\ task = [t \in RowIds |-> IF t <= n THEN "pending" ELSE "none"]
    /\ storage = {}
    /\ track_updates = <<>>
    /\ lastSubmit = [status |-> 0, id |-> NoId, empty |-> FALSE]
    /\ hs = [h \in Handlers |-> IdleHandler]
    /\ overlap = [h \in Handlers |-> {}]
    /\ lastApplied = [t \in TrackIds |-> MalformedBody]
    /\ delivered = 0
    /\ probe = NoProbe
    /\ reply = NoReply
    /\ ClientInit

NextReads ==
    \/ \E t \in RowIds : DispatcherThen(t)
    \/ \E t \in RowIds : DispatcherCatch(t)
    \/ \E route \in RecentRoutes, limitText \in LimitTexts : GetRecent(route, limitText)
    \/ \E trackId \in {NoId} \cup 1..(MaxRows + 1) : GetTrack(trackId)

SpecReads == InitReads /\ [][NextReads]_vars

(* ------------------ the row the submission endpoint builds ------------- *)
MaxListLen == 6

\* A selected song: with or without audio_features; tempo in BPM, energy and
\* valence in hundredths.
NoFeatures == [features |-> FALSE, tempo |-> 0, energy |-> 0, valence |-> 0]
Features(tempo, energy, valence) ==
    [features |-> TRUE, tempo |-> tempo, energy |-> energy, valence |-> valence]
SongKinds == {NoFeatures, Features(100, 20, 25), Features(141, 80, 100), Features(0, 0, 0)}
SongListsOfKinds == UNION {[1..n -> SongKinds] : n \in 0..MaxListLen}

RECURSIVE Reduce(_, _)
\* Array.prototype.reduce((sum, song) => sum + f(song), acc)
Reduce(terms, acc) ==
    IF terms = <<>> THEN acc ELSE Reduce(Tail(terms), acc + Head(terms))

\* Math.round(p / q) for p >= 0, q > 0: the nearest integer, halves upwards
RoundDiv(p, q) == (2 * p + q) \div (2 * q)

\* `song.audio_features?.tempo || 120` and its like: the default stands in
\* for an absent vector and for a value of 0.
TempoTerm(song) == IF song.features /\ song.tempo # 0 THEN song.tempo ELSE 120
EnergyTerm(song) == IF song.features /\ song.energy # 0 THEN song.energy ELSE 50
ValenceTerm(song) == IF song.features /\ song.valence # 0 THEN song.valence ELSE 50

\* avgTempo: Math.round(sum / length), 120 without songs
AvgTempo(songs) ==
    IF Len(songs) > 0 THEN RoundDiv(Reduce([k \in 1..Len(songs) |-> TempoTerm(songs[k])], 0), Len(songs)) ELSE 120
\* Math.round(avgEnergy * 100) / 100 in hundredths, 0.5 without songs
AvgEnergy(songs) ==
    IF Len(songs) > 0 THEN RoundDiv(Reduce([k \in 1..Len(songs) |-> EnergyTerm(songs[k])], 0), Len(songs)) ELSE 50
AvgValence(songs) ==
    IF Len(songs) > 0 THEN RoundDiv(Reduce([k \in 1..Len(songs) |-> ValenceTerm(songs[k])], 0), Len(songs)) ELSE 50

\* trackData as passed to createTrackRecord
TrackData(description, songs) ==
    [user_description |-> description.text,
     selected_songs |-> songs,
     generation_params |-> [duration |-> GenerationDuration],
     tempo |-> AvgTempo(songs), energy |-> AvgEnergy(songs), valence |-> AvgValence(songs),
     status |-> "generating"]

\* POST /api/generate-music from the request body to the row it hands to
\* createTrackRecord.
BuildTrack(description, songs) ==
    /\ ~built.asked
    /\ LET outcome == Validate(description, Songs(Len(songs)))
       IN built' = [asked |-> TRUE, outcome |-> outcome, songs |-> songs,
                    row |-> IF outcome = "accept" THEN TrackData(description, songs)
                            ELSE TrackData(Description(<<>>), <<>>)]
    /\ UNCHANGED <<serverVars, title, rt, poll, search, sel, gen>>

NextData ==
    \E description \in {Description(<<>>), Description(<<"a">>)}, songs \in SongListsOfKinds :
        BuildTrack(description, songs)

SpecData == Init /\ [][NextData]_vars

(* -------------------------- generateRandomTitle ------------------------ *)
RandomGrain == 2

titleWords ==
    [moods |-> <<"Dreamy", "Melancholic", "Euphoric", "Serene", "Vibrant", "Nostalgic", "Mystical", "Peaceful", "Electric", "Soulful">>,
     times |-> <<"Midnight", "Dawn", "Sunset", "Evening", "Morning", "Twilight", "Afternoon", "Night">>,
     places |-> <<"City", "Ocean", "Forest", "Garden", "Studio", "Cafe", "Rooftop", "Valley", "Beach", "Mountain">>,
     activities |-> <<"Dreams", "Memories", "Journey", "Dance", "Meditation", "Study", "Vibes", "Session", "Flow", "Escape">>,
     instruments |-> <<"Piano", "Guitar", "Synth", "Drums", "Bass", "Strings", "Vocals", "Beats">>,
     genres |-> <<"Lofi", "Ambient", "Jazz", "Electronic", "Acoustic", "Chill", "Indie", "Neo-Soul", "Downtempo">>,
     descriptors |-> <<"Smooth", "Deep", "Soft", "Warm", "Cool", "Rich", "Light", "Heavy", "Bright", "Dark">>,
     weather |-> <<"Rainy", "Sunny", "Cloudy", "Stormy", "Misty", "Windy">>,
     emotions |-> <<"Hopeful", "Reflective", "Joyful", "Contemplative", "Energetic", "Calm", "Intense", "Gentle">>]
FastWords == <<"Fast", "Quick", "Rapid", "Swift">>
SlowWords == <<"Slow", "Gentle", "Lazy", "Relaxed">>

\* Array.prototype.filter((w) => list.includes(w))
FilterIn(seq, words) == LET Test(w) == w \in words IN SelectSeq(seq, Test)

\* word.toLowerCase(): no two title words differ in case only
ToLowerCase(word) == <<"lower", word>>

\* Math.floor(Math.random() * n): every index
RandomIndex(n) == 0..(n - 1)
\* Math.floor(Math.random() * n) for the draws k / RandomGrain of Math.random()
CoarseRandomIndex(n) == {(k * n) \div RandomGrain : k \in 0..(RandomGrain - 1)}

\* getRandomWord that does not add the word to usedWords.
getRandomWordUnmarked(category, usedWords) ==
    LET Unused(w) == ToLowerCase(w) \notin usedWords
        availableWords == SelectSeq(category, Unused)
    IN IF Len(availableWords) = 0
       THEN {[word |-> category[k + 1], usedWords |-> usedWords] : k \in CoarseRandomIndex(Len(category))}
       ELSE {[word |-> availableWords[k + 1], usedWords |-> usedWords] :
                k \in CoarseRandomIndex(Len(availableWords))}

\* getRandomWord(category): the words it can return, each with usedWords as
\* the call leaves it.
getRandomWord(category, usedWords) ==
    LET Unused(w) == ToLowerCase(w) \notin usedWords
        availableWords == SelectSeq(category, Unused)
    IN IF Len(availableWords) = 0
       THEN {[word |-> category[k + 1], usedWords |-> usedWords] : k \in CoarseRandomIndex(Len(category))}
       ELSE {[word |-> availableWords[k + 1],
              usedWords |-> usedWords \cup {ToLowerCase(availableWords[k + 1])}] :
                k \in CoarseRandomIndex(Len(availableWords))}

\* `song.audio_features?.energy || 0.5` and `...valence || 0.5`, in hundredths
TitleEnergyTerm(song) == IF song.features /\ song.energy # 0 THEN 100 * song.energy ELSE 50
TitleValenceTerm(song) == IF song.features /\ song.valence # 0 THEN 100 * song.valence ELSE 50

\* avgEnergy, avgValence (hundredths) and avgTempo compared with a threshold:
\* the unrounded mean of the terms, the defaults without songs
MeanAbove(terms, default, threshold) ==
    IF Len(terms) > 0 THEN Reduce(terms, 0) > threshold * Len(terms) ELSE default > threshold
MeanBelow(terms, default, threshold) ==
    IF Len(terms) > 0 THEN Reduce(terms, 0) < threshold * Len(terms) ELSE default < threshold

\* The category the word at position 0 is taken from
FirstCategory(songs) ==
    IF MeanAbove([k \in 1..Len(songs) |-> TitleValenceTerm(songs[k])], 50, 70)
    THEN FilterIn(titleWords.moods, {"Euphoric", "Vibrant", "Joyful", "Energetic"})
            \o FilterIn(titleWords.emotions, {"Hopeful", "Joyful", "Energetic"})
    ELSE IF MeanBelow([k \in 1..Len(songs) |-> TitleValenceTerm(songs[k])], 50, 30)
    THEN FilterIn(titleWords.moods, {"Melancholic", "Nostalgic", "Reflective"})
            \o FilterIn(titleWords.emotions, {"Reflective", "Contemplative"})
    ELSE titleWords.moods \o titleWords.descriptors

\* The categories the last word is drawn from
LastCategories(songs) ==
    <<titleWords.activities, titleWords.places>>
        \o (IF MeanAbove([k \in 1..Len(songs) |-> TitleEnergyTerm(songs[k])], 50, 60)
            THEN <<FilterIn(titleWords.activities, {"Dance", "Flow", "Session"})>> ELSE <<>>)

\* The categories a middle word is drawn from (the songs of the model carry
\* no genres, so commonGenres is empty)
MiddleCategories(songs) ==
    <<titleWords.times, titleWords.places, titleWords.instruments, titleWords.weather, titleWords.descriptors>>
        \o (IF MeanAbove([k \in 1..Len(songs) |-> TempoTerm(songs[k])], 120, 140) THEN <<FastWords>>
            ELSE IF MeanBelow([k \in 1..Len(songs) |-> TempoTerm(songs[k])], 120, 80) THEN <<SlowWords>> ELSE <<>>)

TitleSongLists == {<<>>, <<Features(141, 1, 1)>>, <<Features(60, 0, 0)>>}

\* The call and `Math.floor(Math.random() * 7) + 2`.  titleParts holds the
\* words pushed, without their order.
TitleStart(songs) ==
    /\ title.pc = "idle"
    /\ \E r \in RandomIndex(7) :
          title' = [pc |-> "loop", songs |-> songs, titleLength |-> r + 2, i |-> 0,
                    usedWords |-> {}, titleParts |-> EmptyBag]
    /\ UNCHANGED <<serverVars, built, rt, poll, search, sel, gen>>

\* One round of the for loop; after the last one the function returns
\* titleParts.join(" ").
TitleWord ==
    /\ title.pc = "loop"
    /\ LET categories ==
               IF title.i = 0 THEN <<FirstCategory(title.songs)>>
               ELSE IF title.i = title.titleLength - 1 THEN LastCategories(title.songs)
               ELSE MiddleCategories(title.songs)
       IN \E c \in RandomIndex(Len(categories)) :
          \E pick \in getRandomWord(categories[c + 1], title.usedWords) :
             title' = [title EXCEPT
                          !.usedWords = pick.usedWords,
                          !.titleParts = @ (+) SetToBag({pick.word}),
                          !.i = @ + 1,
                          !.pc = IF title.i + 1 < title.titleLength THEN "loop" ELSE "done"]
    /\ UNCHANGED <<serverVars, built, rt, poll, search, sel, gen>>

NextTitle ==
    \/ \E songs \in TitleSongLists : TitleStart(songs)
    \/ TitleWord

SpecTitle == Init /\ [][NextTitle]_vars

(* -------------------------- useSupabaseRealtime ------------------------ *)
MaxChannels == 3
MaxEvents == 2

ChannelIds == 1..MaxChannels

\* channel.unsubscribe() (a null channel is not unsubscribed)
Unsubscribe(r, channel) ==
    [r EXCEPT !.joining = @ \ {channel}, !.joined = @ \ {channel}]

\* Channel names are `realtime:${tableName}:${event}:${Date.now()}`: a name no
\* live channel and no reference of the hook carries
FreshChannels(r) ==
    ChannelIds \ (r.joining \cup r.joined \cup {r.channel, r.setupChannel.channel, r.effect.newChannel})

\* setupChannel as the render whose deps are r.setupChannel built it: it
\* unsubscribes the `channel` it closed over, subscribes newChannel and calls
\* setChannel(newChannel).  With a null client `supabase.channel` throws, the
\* catch sets the error and null is returned.
SetupChannel(r, newChannel) ==
    IF ~r.client
    THEN [hook |-> r, newChannel |-> NoChannel]
    ELSE [hook |-> [Unsubscribe(r, r.setupChannel.channel) EXCEPT
                       !.joining = @ \cup {newChannel},
                       !.channel = newChannel],
          newChannel |-> newChannel]

\* The first render of a component that uses the hook.
HookMount(client, filtered) ==
    /\ rt.pc = "idle"
    /\ rt' = [rt EXCEPT !.pc = "mounted", !.client = client, !.filtered = filtered,
                        !.setupChannel = [channel |-> rt.channel, options |-> rt.options]]
    /\ UNCHANGED <<serverVars, built, title, poll, search, sel, gen>>

\* A re-render after `channel` or an option changed: useCallback builds a new
\* setupChannel because its deps changed.
HookRender ==
    /\ rt.pc = "mounted"
    /\ rt.setupChannel # [channel |-> rt.channel, options |-> rt.options]
    /\ rt' = [rt EXCEPT !.setupChannel = [channel |-> rt.channel, options |-> rt.options]]
    /\ UNCHANGED <<serverVars, built, title, poll, search, sel, gen>>

\* useEffect(..., [setupChannel]): the cleanup of the previous run, then
\* setupChannel().
HookEffect ==
    /\ rt.pc = "mounted"
    /\ rt.effect.deps # rt.setupChannel
    /\ \E c \in FreshChannels(rt) :
          LET cleaned == Unsubscribe(rt, rt.effect.newChannel)
              setup == SetupChannel(cleaned, c)
          IN rt' = [setup.hook EXCEPT
                       !.effect = [deps |-> rt.setupChannel, newChannel |-> setup.newChannel]]
    /\ UNCHANGED <<serverVars, built, title, poll, search, sel, gen>>

\* reconnect(), called once the effect of the current render has run:
\* setupChannel() of that render, outside the effect.
HookReconnect ==
    /\ rt.pc = "mounted"
    /\ rt.effect.deps = rt.setupChannel
    /\ \E c \in FreshChannels(rt) :
          rt' = [SetupChannel(rt, c).hook EXCEPT !.disturbed = TRUE]
    /\ UNCHANGED <<serverVars, built, title, poll, search, sel, gen>>

\* The caller passes another option value (for instance another onEvent).
HookOptionsChange ==
    /\ rt.pc = "mounted"
    /\ rt' = [rt EXCEPT !.options = 1 - @, !.disturbed = TRUE]
    /\ UNCHANGED <<serverVars, built, title, poll, search, sel, gen>>

\* Unmount: the cleanup of the last effect run.
HookUnmount ==
    /\ rt.pc = "mounted"
    /\ rt' = [Unsubscribe(rt, rt.effect.newChannel) EXCEPT !.pc = "unmounted"]
    /\ UNCHANGED <<serverVars, built, title, poll, search, sel, gen>>

\* The realtime service answers a subscribe: the status callback gets
\* "SUBSCRIBED".
ChannelJoined(c) ==
    /\ c \in rt.joining
    /\ rt' = [rt EXCEPT !.joining = @ \ {c}, !.joined = @ \cup {c}, !.everActive = TRUE]
    /\ UNCHANGED <<serverVars, built, title, poll, search, sel, gen>>

\* A row is inserted into the table and the service hands it to the
\* postgres_changes callback of every joined channel, which drops it when the
\* filter is set and payload.new[filter] differs from filterValue, and calls
\* onEvent otherwise.
PublishEvent(matches) ==
    /\ Len(rt.events) < MaxEvents
    /\ rt' = [rt EXCEPT !.events = Append(@,
                 [after |-> rt.pc = "mounted" /\ rt.everActive,
                  matches |-> matches,
                  onEvent |-> IF rt.filtered /\ ~matches THEN 0 ELSE Cardinality(rt.joined)])]
    /\ UNCHANGED <<serverVars, built, title, poll, search, sel, gen>>

NextHook ==
    \/ \E client \in BOOLEAN, filtered \in BOOLEAN : HookMount(client, filtered)
    \/ HookRender
    \/ HookEffect
    \/ HookReconnect
    \/ HookOptionsChange
    \/ HookUnmount
    \/ \E c \in ChannelIds : ChannelJoined(c)
    \/ \E matches \in BOOLEAN : PublishEvent(matches)

SpecHook == Init /\ [][NextHook]_vars

\* React runs every render and every effect it has scheduled.
SpecHookFair == SpecHook /\ WF_vars(HookRender) /\ WF_vars(HookEffect)

(* ----------------------------- pollTrackStatus ------------------------- *)
maxAttempts == 30

\* What one `fetch(/api/generate-music?id=...)` followed by response.json()
\* can give: a track with its status, a JSON body without a track (the 404
\* and 500 answers), or a rejected promise (network failure, a body that is
\* not JSON).
ReadOutcomes == {"generating", "completed", "failed", "no_track", "throw"}

\* pollTrackStatus(trackId): `setTimeout(poll, 5000)`.
PollStart ==
    /\ poll.pc = "idle"
    /\ poll' = [poll EXCEPT !.pc = "scheduled"]
    /\ UNCHANGED <<serverVars, built, title, rt, search, sel, gen>>

\* One run of poll(): the read, the update of the generated track, and either
\* the next setTimeout(poll, 10000) or the end of the polling.
PollRead(outcome) ==
    /\ poll.pc = "scheduled"
    /\ LET read == [poll EXCEPT !.reads = @ + 1, !.readAfterTerminal = poll.sawTerminal]
       IN poll' =
            IF outcome = "throw"
            THEN [read EXCEPT !.pc = "stopped", !.threw = TRUE]
            ELSE IF outcome \in {"completed", "failed"}
            THEN [read EXCEPT !.pc = "stopped", !.shown = outcome, !.sawTerminal = TRUE]
            ELSE [read EXCEPT
                     !.shown = IF outcome = "no_track" THEN @ ELSE outcome,
                     !.attempts = @ + 1,
                     !.pc = IF poll.attempts + 1 < maxAttempts THEN "scheduled" ELSE "stopped"]
    /\ UNCHANGED <<serverVars, built, title, rt, search, sel, gen>>

NextPoll ==
    \/ PollStart
    \/ \E outcome \in ReadOutcomes : PollRead(outcome)

SpecPoll == Init /\ [][NextPoll]_vars

(* ----------------------------- useSpotifySearch ------------------------ *)
MaxSearches == 3

Queries == {<<>>, <<"a">>, <<" ", " ">>, <<"a", "b">>, <<"a", "b", "c">>}

\* `!searchQuery.trim() || searchQuery.length < 2`
TooShort(searchQuery) == Trim(searchQuery) = <<>> \/ Len(searchQuery) < 2

\* The values of `results`: the empty list, or the tracks the search endpoint
\* returns for a query
NoResults == [tracks |-> FALSE]
TracksFor(searchQuery) == [tracks |-> TRUE, q |-> searchQuery]

\* What a search request can come back with: data.tracks, data.error, or a
\* rejected fetch
SearchOutcomes == {"tracks", "error", "throw"}

\* setQuery(q): the effect's cleanup clears the pending timer and the effect
\* sets a new one for q.
SetQuery(q) ==
    /\ q # search.query
    /\ search' = [search EXCEPT !.query = q, !.timer = TRUE]
    /\ UNCHANGED <<serverVars, built, title, rt, poll, sel, gen>>

\* The 300 ms timer fires: searchSpotify(query) up to its await.
SearchTimer ==
    /\ search.timer
    /\ search.issued < MaxSearches
    /\ search' =
         IF TooShort(search.query)
         THEN [search EXCEPT !.timer = FALSE, !.issued = @ + 1, !.results = NoResults,
                             !.cleared = FALSE,
                             !.latest = [n |-> search.issued + 1, q |-> search.query,
                                         expect |-> NoResults]]
         ELSE [search EXCEPT !.timer = FALSE, !.issued = @ + 1,
                             !.inflight = @ \cup {[n |-> search.issued + 1, q |-> search.query]},
                             !.latest = [n |-> search.issued + 1, q |-> search.query,
                                         expect |-> NoResults]]
    /\ UNCHANGED <<serverVars, built, title, rt, poll, sel, gen>>

\* A request comes back: the rest of searchSpotify after the await.
SearchResponse(request, outcome) ==
    /\ request \in search.inflight
    /\ LET shown == IF outcome = "tracks" THEN TracksFor(request.q) ELSE NoResults
       IN search' = [search EXCEPT
                        !.inflight = @ \ {request},
                        !.results = shown,
                        !.cleared = FALSE,
                        !.latest = IF request.n = @.n THEN [@ EXCEPT !.expect = shown] ELSE @]
    /\ UNCHANGED <<serverVars, built, title, rt, poll, sel, gen>>

\* clearResults()
ClearResults ==
    /\ search.results # NoResults
    /\ search' = [search EXCEPT !.results = NoResults, !.cleared = TRUE]
    /\ UNCHANGED <<serverVars, built, title, rt, poll, sel, gen>>

NextSearch ==
    \/ \E q \in Queries : SetQuery(q)
    \/ SearchTimer
    \/ \E n \in 1..MaxSearches, q \in Queries, outcome \in SearchOutcomes :
          SearchResponse([n |-> n, q |-> q], outcome)
    \/ ClearResults

SpecSearch == Init /\ [][NextSearch]_vars

(* ------------------------------ addSelectedSong ------------------------ *)
MaxPending == 2

\* selectedSongs.some((song) => song.id === id)
SomeSelected(selectedSongs, id) == \E k \in 1..Len(selectedSongs) : selectedSongs[k] = id

\* The number of addSelectedSong calls that wait for their track details
RECURSIVE PendingAdds(_, _)
PendingAdds(pending, n) == IF n = 0 THEN 0 ELSE pending[n] + PendingAdds(pending, n - 1)

\* The `disabled` of a search result's button, as the render with this state
\* computes it
AddDisabled(s, track) ==
    \/ Len(s.selectedSongs) >= 5
    \/ SomeSelected(s.selectedSongs, track)
    \/ s.loadingDetails = track

\* A click on a search result: addSelectedSong(track) up to its await.  The
\* handler returns at once when the list it sees is full or holds the track.
AddSelectedSong(track) ==
    /\ ~AddDisabled(sel, track)
    /\ Len(sel.selectedSongs) < 5
    /\ ~SomeSelected(sel.selectedSongs, track)
    /\ PendingAdds(sel.pending, NumSongIds) < MaxPending
    /\ sel' = [sel EXCEPT !.loadingDetails = track, !.pending[track] = @ + 1]
    /\ UNCHANGED <<serverVars, built, title, rt, poll, search, gen>>

\* fetchTrackDetails comes back, with the detailed track or with null (then
\* the basic track is used): the rest of addSelectedSong.  Both entries carry
\* the id of the track.
AddDetailsArrive(track, detailed) ==
    /\ sel.pending[track] > 0
    /\ sel' = [sel EXCEPT !.pending[track] = @ - 1,
                          !.selectedSongs = Append(@, track),
                          !.loadingDetails = NoSongId]
    /\ UNCHANGED <<serverVars, built, title, rt, poll, search, gen>>

\* removeSelectedSong(trackId)
RemoveSelectedSong(trackId) ==
    /\ SomeSelected(sel.selectedSongs, trackId)
    /\ LET Other(id) == id # trackId
       IN sel' = [sel EXCEPT !.selectedSongs = SelectSeq(@, Other)]
    /\ UNCHANGED <<serverVars, built, title, rt, poll, search, gen>>

NextSelect ==
    \/ \E track \in SongIds : AddSelectedSong(track)
    \/ \E track \in SongIds, detailed \in BOOLEAN : AddDetailsArrive(track, detailed)
    \/ \E trackId \in SongIds : RemoveSelectedSong(trackId)

SpecSelect == Init /\ [][NextSelect]_vars

(* ------------------- the broadcast-driven viewer (Component) ----------- *)
MaxJobs == 2
MaxReceived == 3

JobIds == 1..MaxJobs

\* An entry of generatedTracks
GeneratedTrack(id, status) == [id |-> id, status |-> status]

\* The payloads onReceive tells apart: by payload.status, about payload.track
Payloads == [status : {"completed", "failed", "processing"}, id : JobIds]

\* prev.map((track) => track.id === id ? { ...track, status } : track)
MapStatus(prev, id, status) ==
    [k \in 1..Len(prev) |-> IF prev[k].id = id THEN [prev[k] EXCEPT !.status = status] ELSE prev[k]]

\* A click on the generate button (disabled while isGenerating):
\* handleGenerateMusic up to its await.
GenerateStart ==
    /\ gen.pc = "idle"
    /\ ~gen.isGenerating
    /\ gen.jobs < MaxJobs
    /\ gen' = [gen EXCEPT !.pc = "posting", !.isGenerating = TRUE]
    /\ UNCHANGED <<serverVars, built, title, rt, poll, search, sel>>

\* The POST comes back: with the new track (status generating), which is put
\* in front of the list and the form is cleared, or with an error.
GenerateResponse(ok) ==
    /\ gen.pc = "posting"
    /\ IF ok
       THEN /\ gen' = [gen EXCEPT !.pc = "idle", !.isGenerating = FALSE, !.jobs = @ + 1,
                                  !.generatedTracks =
                                      <<GeneratedTrack(gen.jobs + 1, "generating")>> \o @]
            /\ sel' = [sel EXCEPT !.selectedSongs = <<>>]
       ELSE /\ gen' = [gen EXCEPT !.pc = "idle", !.isGenerating = FALSE]
            /\ sel' = sel
    /\ UNCHANGED <<serverVars, built, title, rt, poll, search>>

\* onReceive(payload) of the broadcast channel.
BroadcastReceive(payload) ==
    /\ gen.received < MaxReceived
    /\ gen' =
         IF payload.status = "completed"
         THEN [gen EXCEPT !.received = @ + 1,
                          !.generatedTracks = <<GeneratedTrack(payload.id, "completed")>> \o @,
                          !.selectedTrack = payload.id,
                          !.isGenerating = FALSE,
                          !.completed = @ \cup {payload.id}]
         ELSE IF payload.status = "failed"
         THEN [gen EXCEPT !.received = @ + 1,
                          !.generatedTracks = MapStatus(@, payload.id, "failed"),
                          !.selectedTrack = IF @ = payload.id THEN 0 ELSE @,
                          !.isGenerating = FALSE]
         ELSE [gen EXCEPT !.received = @ + 1]
    /\ UNCHANGED <<serverVars, built, title, rt, poll, search, sel>>

NextGenerated ==
    \/ GenerateStart
    \/ \E ok \in BOOLEAN : GenerateResponse(ok)
    \/ \E payload \in Payloads : BroadcastReceive(payload)

SpecGenerated == Init /\ [][NextGenerated]_vars

(* ------------------------------- claims -------------------------------- *)
Terminal(status) == status \in {"completed", "failed"}
TerminalFields(row) == <<row.status, row.file_url, row.file_path, row.duration, row.error_message>>
Stepped(h) == hs'[h] # hs[h]

\* C1: a job whose status is completed or failed keeps that status in every
\* later state, whatever callback or dispatcher continuation runs.
C1_TerminalStatusStable ==
    [][\A t \in DOMAIN tracks : Terminal(tracks[t].status) => tracks'[t].status = tracks[t].status]_vars

\* C2: in every state, a job has a file_url exactly when its status is
\* completed.
C2_UrlIffCompleted ==
    \A t \in DOMAIN tracks : (tracks[t].file_url # NullFile) <=> (tracks[t].status = "completed")

\* C3: in every state, a job that has an error message has status failed.
C3_ErrorOnlyIfFailed ==
    \A t \in DOMAIN tracks : tracks[t].error_message # NULL => tracks[t].status = "failed"

\* C4: in every state, a job whose status is failed has a non-empty error
\* message.
C4_FailedHasError ==
    \A t \in DOMAIN tracks : tracks[t].status = "failed" => tracks[t].error_message \notin {NULL, ""}

\* C5: every step that changes a job's status appends exactly one row to
\* track_updates, for that job and with the new status.
C5_StatusChangeLogged ==
    [][\A t \in DOMAIN tracks :
          tracks'[t].status # tracks[t].status =>
             /\ Len(track_updates') = Len(track_updates) + 1
             /\ track_updates'[Len(track_updates')].track_id = t
             /\ track_updates'[Len(track_updates')].status = tracks'[t].status]_vars

\* C6: a handler that finds its terminal callback to be the one that wrote
\* the job last performs no download and no storage write, appends no
\* track_updates row and leaves status, file_url, file_path, duration and
\* error_message of every job as they are.
C6_ReplayIsNoOp ==
    [][\A h \in Handlers :
          (hs[h].replay /\ Stepped(h)) =>
             /\ hs[h].pc # "fetch"
             /\ storage' = storage
             /\ track_updates' = track_updates
             /\ \A t \in DOMAIN tracks : TerminalFields(tracks'[t]) = TerminalFields(tracks[t])]_vars

\* C7: of two invocations that ran concurrently for the same job, at most
\* one has written a terminal status to it.
C7_SingleTerminalTransition ==
    \A h1, h2 \in Handlers :
        (h1 # h2 /\ h2 \in overlap[h1] /\ hs[h1].trackId # NoId /\ hs[h1].trackId = hs[h2].trackId)
            => ~(hs[h1].wroteTerminal /\ hs[h2].wroteTerminal)

\* C8: with a webhook secret configured, a request without a signature
\* header has been answered 401 as soon as the handler has run, and goes no
\* further.
C8_MissingSignatureRejected ==
    \A h \in Handlers : hs[h].unsigned => (~InFlight(h) /\ hs[h].resp = 401)

\* The header value without a leading scheme prefix.
StripScheme(text) ==
    IF IsPrefixAt(text, Sha256Prefix, 1) THEN SubSeq(text, Len(Sha256Prefix) + 1, Len(text)) ELSE text

\* C9: with a secret configured and a signature header supplied, the request
\* passes the signature check exactly when the header, without its scheme
\* prefix, is the hex HMAC of the raw body under the secret.
C9_AcceptedIffExactHmac ==
    (probe.asked /\ env.secret # NoSecret /\ probe.sig.present) =>
        ((probe.outcome # "invalid_signature")
            <=> (StripScheme(probe.sig.text) = ToHex(Hmac(probe.body, env.secret))))

\* C10: an invocation answered 400, 401 or 404 has written nothing: no job
\* row, no storage object, no track_updates row.
C10_RejectedLeavesStore ==
    \A h \in Handlers : hs[h].resp \in {400, 401, 404} => ~hs[h].wrote

\* A stored job exists, one request was turned away for its signature and
\* another, run at the same time, for its unknown prediction id.
C10_Witness ==
    /\ \E t \in DOMAIN tracks : tracks[t].status = "completed"
    /\ \E h1, h2 \in Handlers : hs[h1].resp = 404 /\ hs[h2].resp = 401
\* The only invocation that has written, answered with `resp`, having written
\* a row that was generating at that moment.
SoleWriter(h, resp) ==
    /\ ~InFlight(h) /\ hs[h].resp = resp /\ hs[h].wrote /\ hs[h].onGenerating
    /\ hs[h].trackId \in DOMAIN tracks
    /\ \A j \in Handlers \ {h} : ~InFlight(j) /\ ~hs[j].wrote

RelocationCauses ==
    {"Failed to fetch audio", "The operation was aborted due to timeout", "Supabase storage error"}

C14_WitnessNoted ==
    \E h \in Handlers :
        /\ ~InFlight(h) /\ hs[h].resp = 200 /\ ~hs[h].wrote /\ hs[h].onGenerating
        /\ hs[h].trackId \in DOMAIN tracks
        /\ tracks[hs[h].trackId].status = "generating"
\* C15: the step that stores a provider handle on a row finds the row
\* generating and leaves it generating, and a stored handle is never replaced
\* by a different value.
C15_HandleStoredWhileGenerating ==
    [][\A t \in DOMAIN tracks :
          /\ (tracks[t].replicate_prediction_id = NoId /\ tracks'[t].replicate_prediction_id # NoId)
                => (tracks[t].status = "generating" /\ tracks'[t].status = "generating")
          /\ (tracks[t].replicate_prediction_id # NoId)
                => (tracks'[t].replicate_prediction_id = tracks[t].replicate_prediction_id)]_vars

\* C16: a submission whose description is blank and whose list of songs is
\* empty is answered 400; it creates no row, hands out no id and starts no
\* provider continuation.
C16_EmptySubmissionRejected ==
    [][(lastSubmit' # lastSubmit /\ lastSubmit'.empty) =>
          /\ lastSubmit'.status = 400
          /\ tracks' = tracks /\ created' = created /\ task' = task]_vars

\* An empty submission has been answered 400 and nothing has been created.
C16_Witness ==
    /\ lastSubmit.empty /\ lastSubmit.status = 400
    /\ created = 0 /\ tracks = <<>> /\ \A t \in TrackIds : task[t] = "none"

\* C17: a submission answered with success has stored exactly one new row,
\* under the id of the response and with status generating, and its provider
\* continuation has not run yet when the response is made.
C17_SubmitPersistsBeforeProvider ==
    [][(lastSubmit' # lastSubmit /\ lastSubmit'.status = 200) =>
          LET id == lastSubmit'.id
          IN /\ id \notin DOMAIN tracks
             /\ DOMAIN tracks' = DOMAIN tracks \cup {id}
             /\ tracks'[id].status = "generating"
             /\ \A t \in DOMAIN tracks : tracks'[t] = tracks[t]
             /\ task[id] = "none" /\ task'[id] = "pending"]_vars

\* C18: once the provider continuation of a job has run to its end, the job
\* has left generating (a row that carries no provider handle has been
\* written by its continuation only).
C18_ContinuationLeavesGenerating ==
    \A t \in TrackIds :
        (task[t] \in {"done", "rejected"} /\ t \in DOMAIN tracks
            /\ tracks[t].replicate_prediction_id = NoId)
        => tracks[t].status # "generating"
\* The limit a request asks for: 3 without a limit parameter, the number a
\* one-digit numeral names otherwise.
AskedLimit(text) ==
    IF text = <<>> THEN 3 ELSE (CHOOSE d \in 1..10 : HexDigits[d] = text[1]) - 1

\* C19: a recent-list response lists rows of the store only, each with status
\* completed at that moment and as the store holds it, no row twice, newest
\* created_at first, as many as the limit allows (3 without a limit) and none
\* of them older than a completed row left out.
C19_RecentListsCompletedNewestFirst ==
    [][(reply' # reply /\ reply'.endpoint = "recent" /\ reply'.status = 200 /\ Len(reply'.limit) <= 1)
          => LET rows == reply'.rows
                 listed == {rows[i].id : i \in 1..Len(rows)}
                 limit == AskedLimit(reply'.limit)
                 count == Cardinality(Completed(tracks))
             IN /\ \A i \in 1..Len(rows) :
                      /\ rows[i].id \in DOMAIN tracks
                      /\ tracks[rows[i].id].status = "completed"
                      /\ rows[i].status = "completed"
                      /\ rows[i].created_at = tracks[rows[i].id].created_at
                      /\ rows[i].file_url = tracks[rows[i].id].file_url
                /\ Cardinality(listed) = Len(rows)
                /\ \A i, j \in 1..Len(rows) : i < j => rows[i].created_at >= rows[j].created_at
                /\ Len(rows) = IF limit < count THEN limit ELSE count
                /\ \A t \in Completed(tracks) \ listed :
                      \A i \in 1..Len(rows) : tracks[t].created_at <= rows[i].created_at]_vars

\* C20: a status read that names an id and whose query did not fail answers
\* 200 with the stored row when the store holds a row of that id, and 404
\* with no row when it holds none.
C20_StatusReadStoredOr404 ==
    [][(reply' # reply /\ reply'.endpoint = "status" /\ reply'.id # NoId /\ ~reply'.dbError)
          => IF reply'.id \in DOMAIN tracks
             THEN reply'.status = 200 /\ reply'.rows = <<tracks[reply'.id]>>
             ELSE reply'.status = 404 /\ reply'.rows = <<>>]_vars

\* C21: the row built for an accepted submission holds at most 5 selected
\* songs.
C21_AtMostFiveReferenceTracks ==
    (built.asked /\ built.outcome = "accept") => Len(built.row.selected_songs) <= 5

\* The sums the means are taken over: a song with a feature vector counts
\* with its own values, a song without one with 120, 0.5 and 0.5.
RECURSIVE OwnSum(_, _)
OwnSum(songs, field) ==
    IF songs = <<>> THEN 0
    ELSE (IF Head(songs).features THEN Head(songs)[field]
          ELSE IF field = "tempo" THEN 120 ELSE 50) + OwnSum(Tail(songs), field)

\* v is the quotient sum / n rounded to a whole unit
IsRounded(v, sum, n) ==
    /\ 2 * (n * v - sum) <= n
    /\ 2 * (sum - n * v) <= n

\* C22: the tempo, energy and valence of the row built for an accepted
\* submission are the means over its songs, a song without a feature vector
\* counting 120, 0.5 and 0.5, rounded to a whole BPM and to hundredths;
\* without songs they are 120, 0.5 and 0.5.
C22_AggregatesAreRoundedMeans ==
    (built.asked /\ built.outcome = "accept") =>
        LET songs == built.songs
            n == Len(songs)
        IN IF n = 0
           THEN built.row.tempo = 120 /\ built.row.energy = 50 /\ built.row.valence = 50
           ELSE /\ IsRounded(built.row.tempo, OwnSum(songs, "tempo"), n)
                /\ IsRounded(built.row.energy, OwnSum(songs, "energy"), n)
                /\ IsRounded(built.row.valence, OwnSum(songs, "valence"), n)

\* C30: for a single song that carries a feature vector, the row built has
\* that song's own tempo, energy and valence, a value of 0 included.
C30_PresentFeaturesCountAsGiven ==
    (built.asked /\ built.outcome = "accept" /\ Len(built.songs) = 1 /\ built.songs[1].features) =>
        /\ built.row.tempo = built.songs[1].tempo
        /\ built.row.energy = built.songs[1].energy
        /\ built.row.valence = built.songs[1].valence

\* C23: a title made for no songs (and any description, the empty one
\* included) has between 2 and 8 words and no word twice.
C23_TitleTwoToEightDistinctWords ==
    (title.pc = "done" /\ title.songs = <<>>) =>
        /\ BagCardinality(title.titleParts) \in 2..8
        /\ \A w \in BagToSet(title.titleParts) : CopiesIn(w, title.titleParts) = 1

\* A title of 8 words has been made for no songs, every weather word in it.
C23_Witness ==
    /\ title.pc = "done" /\ title.songs = <<>>
    /\ BagCardinality(title.titleParts) = 8
    /\ \A k \in 1..Len(titleWords.weather) : BagIn(titleWords.weather[k], title.titleParts)

\* C24: an event published while the viewer is mounted and after a
\* subscription of it became active reaches onEvent exactly once (unless the
\* viewer's filter excludes it), and an event published before that never
\* reaches it.
C24_LiveTapDeliversOnce ==
    \A k \in 1..Len(rt.events) :
        LET e == rt.events[k]
        IN /\ (e.after /\ (rt.filtered => e.matches)) => e.onEvent = 1
           /\ ~e.after => e.onEvent = 0

\* The hook has settled: one channel is subscribed and neither a render nor
\* an effect run is due.
HookSettled ==
    /\ rt.pc = "mounted"
    /\ Cardinality(rt.joining \cup rt.joined) = 1
    /\ rt.setupChannel = [channel |-> rt.channel, options |-> rt.options]
    /\ rt.effect.deps = rt.setupChannel

\* C25: a mounted hook that has a client, whose options stay as they are and
\* that is not asked to reconnect settles: from some point on one channel
\* stays subscribed and neither a render nor an effect run is due.
C25_HookSettles ==
    \/ <>[]HookSettled
    \/ <>[](rt.pc # "mounted" \/ ~rt.client)
    \/ <>(rt.disturbed)

\* C26: the polling makes no read after a read returned completed or failed,
\* never makes more than 30 reads, and ends only after a terminal status or
\* the 30th read, so not because one read failed.
C26_PollsUntilTerminalOrThirtyReads ==
    /\ ~poll.readAfterTerminal
    /\ poll.reads <= 30
    /\ poll.pc = "stopped" => (poll.sawTerminal \/ poll.reads = 30)

\* C27: once searchSpotify has been called and no request is in flight, the
\* results are what the latest call produced: nothing for a query that is too
\* short, else what its request came back with (unless clearResults emptied
\* them since).
C27_ResultsOfLatestQuery ==
    (search.latest.n > 0 /\ search.inflight = {} /\ ~search.cleared) =>
        search.results = search.latest.expect

\* C28: the selected-songs list never holds more than 5 tracks nor one id
\* twice, however the addSelectedSong calls overlap.
C28_AtMostFiveDistinctSelected ==
    /\ Len(sel.selectedSongs) <= 5
    /\ \A j, k \in 1..Len(sel.selectedSongs) :
          sel.selectedSongs[j] = sel.selectedSongs[k] => j = k

\* C29: generatedTracks holds at most one entry per job id, and no entry of a
\* job whose completed event has been handled shows generating.
C29_OneEntryPerJob ==
    /\ \A j, k \in 1..Len(gen.generatedTracks) :
          gen.generatedTracks[j].id = gen.generatedTracks[k].id => j = k
    /\ \A k \in 1..Len(gen.generatedTracks) :
          gen.generatedTracks[k].id \in gen.completed => gen.generatedTracks[k].status # "generating"
=============================================================================
